---- MODULE Spec2Model ----
(***************************************************************************)
(* Model of the two-pass comment-template engine of tmpl.js                *)
(* (class TemplateParser).                                                 *)
(*                                                                         *)
(* Text representation.  A file on disk is a sequence of lines plus the    *)
(* line terminator it uses (crlf).  A line is a record that keeps exactly  *)
(* what the regular expressions of the source look at:                     *)
(*   kind  "blank"  line.trim() === ''                                      *)
(*         "code"   trimmed text that does not start with //               *)
(*         "cmt"    // comment that parseTemplateLine does not match       *)
(*         "dir"    // comment matched by the directive pattern of         *)
(*                  parseTemplateLine: // spaces @word arguments           *)
(*   ind   width of the leading whitespace (lineIndent)                    *)
(*   cs    width of the whitespace after // (commentSpaces)                *)
(*   text  the rest of the line (contentText), "" when empty               *)
(*   cmd, nargs, id   command word without @, number of arguments and the  *)
(*         first argument of a directive line                              *)
(* Whitespace is runs of spaces, so a whitespace string is its width.      *)
(***************************************************************************)
EXTENDS Integers, Sequences, FiniteSets, TLC

(***************************************************************************)
(* Bounds of the model.                                                    *)
(***************************************************************************)
MaxRuns == 2
MaxFiles == 2
MaxChunks == 2
MaxLines == 4
MaxInd == 1
MaxCs == 3

Ids == {"X", "Y"}
BlockCommands == {"block_default", "block_replace", "block_append", "block"}

(***************************************************************************)
(* Line constructors.                                                      *)
(***************************************************************************)
Blank ==
  [kind |-> "blank", ind |-> 0, cs |-> 0, text |-> "", cmd |-> "", nargs |-> 0, id |-> ""]

Code(ind, text) ==
  [kind |-> "code", ind |-> ind, cs |-> 0, text |-> text, cmd |-> "", nargs |-> 0, id |-> ""]

Cmt(ind, cs, text) ==
  [kind |-> "cmt", ind |-> ind, cs |-> cs, text |-> text, cmd |-> "", nargs |-> 0, id |-> ""]

Dir(ind, cs, cmd, nargs, id) ==
  [kind |-> "dir", ind |-> ind, cs |-> cs, text |-> "", cmd |-> cmd, nargs |-> nargs, id |-> id]

(* the string  <sp spaces> + text  read back as a line of a file: a text   *)
(* that itself starts with // gives a comment line ("// n" is the comment  *)
(* n, "//" the empty comment), any other text a code line                  *)
TextLine(sp, text) ==
  IF text = "" THEN Blank
  ELSE IF text = "//" THEN Cmt(sp, 0, "")
  ELSE IF text = "// n" THEN Cmt(sp, 1, "n")
  ELSE Code(sp, text)

(* line.trim().startsWith('//') *)
IsComment(line) == line.kind \in {"cmt", "dir"}

(* contentText.trim() === '' for a comment line: nothing follows the //    *)
ContentIsEmpty(line) == line.kind = "cmt" /\ line.text = ""

(* contentText.trim().startsWith('@'): a directive, or a comment such as   *)
(* "// @-x" that has an @ the directive pattern does not match             *)
StartsWithAt(line) == line.kind = "dir" \/ (line.kind = "cmt" /\ line.text = "@-")

(***************************************************************************)
(* parseTemplateLine: null, a directive, or a thrown Error.                *)
(***************************************************************************)
NullDirective ==
  [isNull |-> TRUE, throws |-> FALSE, type |-> "", blockId |-> "", isBlock |-> FALSE]

(* parseTemplateLine taking an @endblock with arguments for an unknown      *)
(* command                                                                 *)
parseTemplateLineBareEnd(line) ==
  IF line.kind # "dir" THEN NullDirective
  ELSE IF line.cmd \in BlockCommands
    THEN IF line.nargs # 1
           THEN [isNull |-> FALSE, throws |-> TRUE, type |-> line.cmd,
                 blockId |-> "", isBlock |-> TRUE]
           ELSE [isNull |-> FALSE, throws |-> FALSE, type |-> line.cmd,
                 blockId |-> line.id, isBlock |-> TRUE]
  ELSE IF line.cmd = "endblock" /\ line.nargs = 0
    THEN [isNull |-> FALSE, throws |-> FALSE, type |-> "endblock",
          blockId |-> "", isBlock |-> FALSE]
  ELSE [isNull |-> FALSE, throws |-> FALSE, type |-> "other",
        blockId |-> "", isBlock |-> FALSE]

(* parseTemplateLine taking every command but @endblock for a block        *)
(* command                                                                 *)
parseTemplateLineAnyCommand(line) ==
  IF line.kind # "dir" THEN NullDirective
  ELSE IF line.cmd = "endblock"
    THEN [isNull |-> FALSE, throws |-> FALSE, type |-> "endblock",
          blockId |-> "", isBlock |-> FALSE]
  ELSE IF line.nargs # 1
    THEN [isNull |-> FALSE, throws |-> TRUE, type |-> line.cmd,
          blockId |-> "", isBlock |-> TRUE]
  ELSE [isNull |-> FALSE, throws |-> FALSE, type |-> line.cmd,
        blockId |-> line.id, isBlock |-> TRUE]

parseTemplateLine(line) ==
  IF line.kind # "dir" THEN NullDirective
  ELSE IF line.cmd \in BlockCommands
    THEN IF line.nargs # 1
           THEN [isNull |-> FALSE, throws |-> TRUE, type |-> line.cmd,
                 blockId |-> "", isBlock |-> TRUE]
           ELSE [isNull |-> FALSE, throws |-> FALSE, type |-> line.cmd,
                 blockId |-> line.id, isBlock |-> TRUE]
  ELSE IF line.cmd = "endblock"
    THEN [isNull |-> FALSE, throws |-> FALSE, type |-> "endblock",
          blockId |-> "", isBlock |-> FALSE]
  ELSE [isNull |-> FALSE, throws |-> FALSE, type |-> line.cmd,
        blockId |-> "", isBlock |-> FALSE]

(* getCommentIndent returning only the spaces after the // *)
getCommentIndentSpaces(line) ==
  IF IsComment(line) THEN line.cs ELSE -1

(* getCommentIndent(line).length: leading whitespace + "//" + spaces; -1   *)
(* stands for null (the line does not start with a comment)                *)
getCommentIndent(line) ==
  IF IsComment(line) THEN line.ind + 2 + line.cs ELSE -1

(***************************************************************************)
(* parseTemplateContent.  NoIndent stands for templateIndent === null.     *)
(***************************************************************************)
NoIndent == -1

(* the item pushed at lines 114-120 *)
RawItem(line) ==
  [indent |-> line.ind, commentSpaces |-> line.cs, contentText |-> line.text,
   originalLine |-> line, isEmpty |-> (line.text = "")]

(* ContentLoop going over blank lines instead of stopping at them *)
RECURSIVE ContentLoopSkipBlank(_, _, _, _, _)
ContentLoopSkipBlank(lines, i, baseIndent, content, templateIndent) ==
  IF i > Len(lines)
    THEN [throws |-> FALSE, content |-> content, nextLine |-> i,
          templateIndent |-> templateIndent]
  ELSE LET line == lines[i]
           stop == [throws |-> FALSE, content |-> content, nextLine |-> i,
                    templateIndent |-> templateIndent]
       IN IF IsComment(line)
            THEN LET directive == parseTemplateLine(line)
                     isEmptyComment == ContentIsEmpty(line)
                     hasValidIndent ==
                       getCommentIndent(line) >= baseIndent \/ isEmptyComment
                 IN IF directive.throws THEN [stop EXCEPT !.throws = TRUE]
                    ELSE IF ~directive.isNull THEN stop
                    ELSE IF hasValidIndent
                      THEN ContentLoopSkipBlank(lines, i + 1, baseIndent,
                             Append(content, RawItem(line)),
                             IF templateIndent = NoIndent /\ line.text # ""
                               THEN line.cs ELSE templateIndent)
                    ELSE stop
          ELSE IF line.kind = "blank"
            THEN ContentLoopSkipBlank(lines, i + 1, baseIndent, content, templateIndent)
          ELSE stop

(* ContentLoop holding an empty comment to the indentation test of the     *)
(* other comments                                                          *)
RECURSIVE ContentLoopStrict(_, _, _, _, _)
ContentLoopStrict(lines, i, baseIndent, content, templateIndent) ==
  IF i > Len(lines)
    THEN [throws |-> FALSE, content |-> content, nextLine |-> i,
          templateIndent |-> templateIndent]
  ELSE LET line == lines[i]
           stop == [throws |-> FALSE, content |-> content, nextLine |-> i,
                    templateIndent |-> templateIndent]
       IN IF IsComment(line)
            THEN LET directive == parseTemplateLine(line)
                 IN IF directive.throws THEN [stop EXCEPT !.throws = TRUE]
                    ELSE IF ~directive.isNull THEN stop
                    ELSE IF getCommentIndent(line) >= baseIndent
                      THEN ContentLoopStrict(lines, i + 1, baseIndent,
                             Append(content, RawItem(line)),
                             IF templateIndent = NoIndent /\ line.text # ""
                               THEN line.cs ELSE templateIndent)
                    ELSE stop
          ELSE stop

(* the while loop, lines 84-139 *)
RECURSIVE ContentLoop(_, _, _, _, _)
ContentLoop(lines, i, baseIndent, content, templateIndent) ==
  IF i > Len(lines)
    THEN [throws |-> FALSE, content |-> content, nextLine |-> i,
          templateIndent |-> templateIndent]
  ELSE LET line == lines[i]
           stop == [throws |-> FALSE, content |-> content, nextLine |-> i,
                    templateIndent |-> templateIndent]
       IN IF IsComment(line)
            THEN LET directive == parseTemplateLine(line)
                     isEmptyComment == ContentIsEmpty(line)
                     hasValidIndent ==
                       getCommentIndent(line) >= baseIndent \/ isEmptyComment
                 IN IF directive.throws THEN [stop EXCEPT !.throws = TRUE]
                    ELSE IF ~directive.isNull THEN stop
                    ELSE IF hasValidIndent
                      THEN ContentLoop(lines, i + 1, baseIndent,
                             Append(content, RawItem(line)),
                             IF templateIndent = NoIndent /\ line.text # ""
                               THEN line.cs ELSE templateIndent)
                    ELSE stop
          ELSE stop

(* ProcessItem stripping all the spaces of every line *)
ProcessItemStripAll(item, templateIndent) ==
  [indent |-> item.indent, commentSpaces |-> item.commentSpaces,
   contentText |-> item.contentText, originalLine |-> item.originalLine,
   isEmpty |-> item.isEmpty, finalSp |-> 0,
   finalText |-> IF item.isEmpty THEN "" ELSE item.contentText]

(* the map at lines 142-165: finalContent is finalSp spaces + finalText *)
ProcessItem(item, templateIndent) ==
  LET fin(sp, text) ==
        [indent |-> item.indent, commentSpaces |-> item.commentSpaces,
         contentText |-> item.contentText, originalLine |-> item.originalLine,
         isEmpty |-> item.isEmpty, finalSp |-> sp, finalText |-> text]
  IN IF item.isEmpty THEN fin(0, "")
     ELSE IF templateIndent # NoIndent /\ item.commentSpaces >= templateIndent
       THEN fin(item.commentSpaces - templateIndent, item.contentText)
     ELSE IF templateIndent # NoIndent /\ item.commentSpaces < templateIndent
             /\ item.contentText # ""
       THEN fin(0, item.contentText)
     ELSE IF item.commentSpaces = 0 /\ item.contentText # ""
       THEN fin(0, item.contentText)
     ELSE fin(item.commentSpaces, item.contentText)

(* parseTemplateContent returning the index after the line that stopped it *)
parseTemplateContentPastStop(lines, startIdx, baseIndent) ==
  LET r == ContentLoop(lines, startIdx, baseIndent, <<>>, NoIndent)
  IN [throws |-> r.throws,
      content |-> [k \in 1..Len(r.content) |-> ProcessItem(r.content[k], r.templateIndent)],
      nextLine |-> r.nextLine + 1,
      templateIndent |-> r.templateIndent]

parseTemplateContent(lines, startIdx, baseIndent) ==
  LET r == ContentLoop(lines, startIdx, baseIndent, <<>>, NoIndent)
  IN [throws |-> r.throws,
      content |-> [k \in 1..Len(r.content) |-> ProcessItem(r.content[k], r.templateIndent)],
      nextLine |-> r.nextLine,
      templateIndent |-> r.templateIndent]

(***************************************************************************)
(* The Block Registry (this.blocks) and parseFile.  The registry is a Map  *)
(* from block identifier to blockInfo; an identifier that is not a key has *)
(* present = FALSE.  blockInfo.default === null is hasDefault = FALSE.     *)
(* An occurrence { content, filePath, indent } also carries the line of    *)
(* its directive, which the source does not store: it is history kept to   *)
(* state the discovery order.  Line numbers are 1-based: startLine is the  *)
(* index of the opening directive, endLine the index of its @endblock or   *)
(* Len(lines) + 1 when there is none.                                      *)
(***************************************************************************)
NoOccurrence == [content |-> <<>>, filePath |-> 0, indent |-> 0, line |-> 0]

NewBlockInfo ==
  [present |-> TRUE, hasDefault |-> FALSE, default |-> NoOccurrence,
   replaces |-> <<>>, appends |-> <<>>]

AbsentBlockInfo == [NewBlockInfo EXCEPT !.present = FALSE]

(* reset(): both maps empty *)
EmptyBlocks == [b \in Ids |-> AbsentBlockInfo]

(* if (!this.blocks.has(blockId)) this.blocks.set(blockId, {...}) *)
EnsureEntry(blocks, blockId) ==
  IF blocks[blockId].present THEN blocks
  ELSE [blocks EXCEPT ![blockId] = NewBlockInfo]

(* FindEndLine counting one line more when the file ends before an         *)
(* @endblock                                                               *)
RECURSIVE FindEndLinePastEnd(_, _)
FindEndLinePastEnd(lines, endLine) ==
  IF endLine > Len(lines) THEN [throws |-> FALSE, endLine |-> endLine + 1]
  ELSE LET endDirective == parseTemplateLine(lines[endLine])
       IN IF endDirective.throws THEN [throws |-> TRUE, endLine |-> endLine]
          ELSE IF ~endDirective.isNull /\ endDirective.type = "endblock"
            THEN [throws |-> FALSE, endLine |-> endLine]
          ELSE FindEndLinePastEnd(lines, endLine + 1)

(* FindEndLine taking the last @endblock of the file as the terminator *)
RECURSIVE FindEndLineLast(_, _)
FindEndLineLast(lines, endLine) ==
  IF endLine > Len(lines) THEN [throws |-> FALSE, endLine |-> endLine]
  ELSE LET endDirective == parseTemplateLine(lines[endLine])
       IN IF endDirective.throws THEN [throws |-> TRUE, endLine |-> endLine]
          ELSE IF /\ ~endDirective.isNull /\ endDirective.type = "endblock"
                  /\ \A j \in (endLine + 1)..Len(lines) :
                       ~(lines[j].kind = "dir" /\ lines[j].cmd = "endblock")
            THEN [throws |-> FALSE, endLine |-> endLine]
          ELSE FindEndLineLast(lines, endLine + 1)

(* FindEndLine raising an error when the file ends before an @endblock *)
RECURSIVE FindEndLineRequired(_, _)
FindEndLineRequired(lines, endLine) ==
  IF endLine > Len(lines) THEN [throws |-> TRUE, endLine |-> endLine]
  ELSE LET endDirective == parseTemplateLine(lines[endLine])
       IN IF endDirective.throws THEN [throws |-> TRUE, endLine |-> endLine]
          ELSE IF ~endDirective.isNull /\ endDirective.type = "endblock"
            THEN [throws |-> FALSE, endLine |-> endLine]
          ELSE FindEndLineRequired(lines, endLine + 1)

(* FindEndLine with a parseTemplateLine that lets a wrong argument count   *)
(* pass as a line that is not @endblock                                    *)
RECURSIVE FindEndLineLenient(_, _)
FindEndLineLenient(lines, endLine) ==
  IF endLine > Len(lines) THEN [throws |-> FALSE, endLine |-> endLine]
  ELSE LET endDirective == parseTemplateLine(lines[endLine])
       IN IF ~endDirective.throws /\ ~endDirective.isNull
             /\ endDirective.type = "endblock"
            THEN [throws |-> FALSE, endLine |-> endLine]
          ELSE FindEndLineLenient(lines, endLine + 1)

(* the search for the corresponding @endblock, lines 199-206 *)
RECURSIVE FindEndLine(_, _)
FindEndLine(lines, endLine) ==
  IF endLine > Len(lines) THEN [throws |-> FALSE, endLine |-> endLine]
  ELSE LET endDirective == parseTemplateLine(lines[endLine])
       IN IF endDirective.throws THEN [throws |-> TRUE, endLine |-> endLine]
          ELSE IF ~endDirective.isNull /\ endDirective.type = "endblock"
            THEN [throws |-> FALSE, endLine |-> endLine]
          ELSE FindEndLine(lines, endLine + 1)

(* PushOccurrence putting the occurrence in front of the list *)
PushOccurrenceFront(blocks, type, blockId, occ) ==
  LET b == EnsureEntry(blocks, blockId)
  IN IF type = "block_replace"
       THEN [b EXCEPT ![blockId].replaces = <<occ>> \o @]
     ELSE IF type = "block_append"
       THEN [b EXCEPT ![blockId].appends = <<occ>> \o @]
     ELSE b

(* blockInfo.replaces.push / blockInfo.appends.push, lines 257-262 *)
PushOccurrence(blocks, type, blockId, occ) ==
  LET b == EnsureEntry(blocks, blockId)
  IN IF type = "block_replace"
       THEN [b EXCEPT ![blockId].replaces = Append(@, occ)]
     ELSE IF type = "block_append"
       THEN [b EXCEPT ![blockId].appends = Append(@, occ)]
     ELSE b

(* SetDefault keeping the first default of an identifier *)
SetDefaultFirstWins(blocks, type, blockId, occ) ==
  LET b == EnsureEntry(blocks, blockId)
  IN IF type = "block_default" /\ ~b[blockId].hasDefault
       THEN [b EXCEPT ![blockId].hasDefault = TRUE, ![blockId].default = occ]
     ELSE b

(* blockInfo.default = {...} for block_default only, lines 229-240 *)
SetDefault(blocks, type, blockId, occ) ==
  LET b == EnsureEntry(blocks, blockId)
  IN IF type = "block_default"
       THEN [b EXCEPT ![blockId].hasDefault = TRUE, ![blockId].default = occ]
     ELSE b

(* the while loop of parseFile, lines 188-269; trace is history: the values *)
(* i has at the top of the loop, the last one being the value that ends it *)
RECURSIVE FileLoop(_, _, _, _, _, _)
FileLoop(lines, filePath, i, blocks, fblocks, trace) ==
  IF i > Len(lines)
    THEN [throws |-> FALSE, blocks |-> blocks,
          fileData |-> [lines |-> lines, blocks |-> fblocks,
                        trace |-> Append(trace, i)]]
  ELSE
    LET line == lines[i]
        directive == parseTemplateLine(line)
        thrown == [throws |-> TRUE, blocks |-> blocks,
                   fileData |-> [lines |-> lines, blocks |-> fblocks,
                                 trace |-> Append(trace, i)]]
    IN IF directive.throws THEN thrown
       ELSE IF ~directive.isNull /\ directive.isBlock
         THEN LET baseIndent == getCommentIndent(line)
              IN IF directive.type \in {"block_default", "block"}
                   THEN LET e == FindEndLine(lines, i + 1)
                            p == IF directive.type = "block_default"
                                   THEN parseTemplateContent(lines, i + 1, baseIndent)
                                   ELSE [throws |-> FALSE, content |-> <<>>,
                                         nextLine |-> i + 1, templateIndent |-> NoIndent]
                            blockData ==
                              [type |-> directive.type, blockId |-> directive.blockId,
                               startLine |-> i, endLine |-> e.endLine,
                               indent |-> baseIndent, content |-> p.content]
                            occ == [content |-> p.content, filePath |-> filePath,
                                    indent |-> baseIndent, line |-> i]
                        IN IF e.throws \/ p.throws THEN thrown
                           ELSE FileLoop(lines, filePath, e.endLine + 1,
                                  SetDefault(blocks, directive.type, directive.blockId, occ),
                                  Append(fblocks, blockData), Append(trace, i))
                 ELSE LET p == parseTemplateContent(lines, i + 1, baseIndent)
                          occ == [content |-> p.content, filePath |-> filePath,
                                  indent |-> baseIndent, line |-> i]
                      IN IF p.throws THEN thrown
                         ELSE FileLoop(lines, filePath, p.nextLine,
                                PushOccurrence(blocks, directive.type,
                                               directive.blockId, occ),
                                fblocks, Append(trace, i))
       ELSE FileLoop(lines, filePath, i + 1, blocks, fblocks, Append(trace, i))

(* parseFile: the lines are the file's text split at LF or CRLF, so the    *)
(* terminator of the file is not part of fileData                          *)
parseFile(file, filePath, blocks) ==
  FileLoop(file.lines, filePath, 1, blocks, <<>>, <<>>)

(***************************************************************************)
(* Pass 2: generateBlockContent and generateOutput.                        *)
(***************************************************************************)
RECURSIVE ConcatContents(_)
ConcatContents(occs) ==
  IF occs = <<>> THEN <<>>
  ELSE Head(occs).content \o ConcatContents(Tail(occs))

(* ResolvedItems taking the first replacement instead of the last *)
ResolvedItemsFirstReplace(blockInfo) ==
  LET base == IF Len(blockInfo.replaces) > 0
                THEN blockInfo.replaces[1].content
              ELSE IF blockInfo.hasDefault THEN blockInfo.default.content
              ELSE <<>>
  IN base \o ConcatContents(blockInfo.appends)

(* ResolvedItems that never uses the default content *)
ResolvedItemsNoDefault(blockInfo) ==
  LET base == IF Len(blockInfo.replaces) > 0
                THEN blockInfo.replaces[Len(blockInfo.replaces)].content
              ELSE <<>>
  IN base \o ConcatContents(blockInfo.appends)

(* ResolvedItems that falls back to the default when the replacement has   *)
(* no content                                                              *)
ResolvedItemsSkipEmptyReplace(blockInfo) ==
  LET base == IF Len(blockInfo.replaces) > 0
                 /\ blockInfo.replaces[Len(blockInfo.replaces)].content # <<>>
                THEN blockInfo.replaces[Len(blockInfo.replaces)].content
              ELSE IF blockInfo.hasDefault THEN blockInfo.default.content
              ELSE <<>>
  IN base \o ConcatContents(blockInfo.appends)

(* lines 283-297: replacement or default content, then all appends *)
ResolvedItems(blockInfo) ==
  LET base == IF Len(blockInfo.replaces) > 0
                THEN blockInfo.replaces[Len(blockInfo.replaces)].content
              ELSE IF blockInfo.hasDefault THEN blockInfo.default.content
              ELSE <<>>
  IN base \o ConcatContents(blockInfo.appends)

(* lines 311-321: every item carries finalContent, so the string and the   *)
(* old-format branches of the loop are never taken                         *)
EmitItem(item, baseIndent) ==
  IF item.isEmpty THEN Blank
  ELSE TextLine(baseIndent + item.finalSp, item.finalText)

(* generateBlockContent leaving the appends out at indented targets *)
generateBlockContentByTarget(blocks, blockId, existingIndent) ==
  IF ~blocks[blockId].present THEN <<>>
  ELSE LET result == IF existingIndent = 0 THEN ResolvedItems(blocks[blockId])
                     ELSE ResolvedItems([blocks[blockId] EXCEPT !.appends = <<>>])
       IN [k \in 1..Len(result) |-> EmitItem(result[k], existingIndent)]

(* generateBlockContent resolving one identifier for every span *)
generateBlockContentOneId(blocks, blockId, existingIndent) ==
  IF ~blocks["X"].present THEN <<>>
  ELSE LET result == ResolvedItems(blocks["X"])
       IN [k \in 1..Len(result) |-> EmitItem(result[k], existingIndent)]

generateBlockContent(blocks, blockId, existingIndent) ==
  IF ~blocks[blockId].present THEN <<>>
  ELSE LET result == ResolvedItems(blocks[blockId])
       IN [k \in 1..Len(result) |-> EmitItem(result[k], existingIndent)]

(* ExistingIndent taking the first line that is not blank, comment or not  *)
RECURSIVE ExistingIndentAnyLine(_, _, _)
ExistingIndentAnyLine(newLines, j, contentEnd) ==
  IF j >= contentEnd THEN 0
  ELSE IF newLines[j].kind # "blank" THEN newLines[j].ind
  ELSE ExistingIndentAnyLine(newLines, j + 1, contentEnd)

(* lines 356-368: indentation of the first line of the span that is not    *)
(* blank and not a comment; 0 is the empty string                          *)
RECURSIVE ExistingIndent(_, _, _)
ExistingIndent(newLines, j, contentEnd) ==
  IF j >= contentEnd THEN 0
  ELSE IF newLines[j].kind = "code" THEN newLines[j].ind
  ELSE ExistingIndent(newLines, j + 1, contentEnd)

(* lines 379-402: the comment lines kept in front of the generated content *)
RECURSIVE PreservedLines(_, _, _, _)
PreservedLines(newLines, j, contentEnd, indent) ==
  IF j >= contentEnd THEN <<>>
  ELSE LET line == newLines[j]
       IN IF IsComment(line) /\ getCommentIndent(line) >= indent
             /\ ~ContentIsEmpty(line) /\ ~StartsWithAt(line)
            THEN <<line>> \o PreservedLines(newLines, j + 1, contentEnd, indent)
          ELSE <<>>

(* ReplacementLines with the preservation scan for @block spans too *)
ReplacementLinesPreserveAll(newLines, block, blocks) ==
  LET contentStart == block.startLine + 1
      contentEnd == block.endLine
      existingIndent == ExistingIndent(newLines, contentStart, contentEnd)
      generatedContent == generateBlockContent(blocks, block.blockId, existingIndent)
      preservedLines == PreservedLines(newLines, contentStart, contentEnd, block.indent)
  IN preservedLines \o generatedContent

(* lines 351-406 for one block: replacementLines *)
ReplacementLines(newLines, block, blocks) ==
  LET contentStart == block.startLine + 1
      contentEnd == block.endLine
      existingIndent == ExistingIndent(newLines, contentStart, contentEnd)
      generatedContent == generateBlockContent(blocks, block.blockId, existingIndent)
      preservedLines == IF block.type = "block_default"
                          THEN PreservedLines(newLines, contentStart, contentEnd,
                                              block.indent)
                          ELSE <<>>
  IN preservedLines \o generatedContent

(* newLines.splice(contentStart, contentEnd - contentStart, ...) *)
Splice(newLines, block, replacementLines) ==
  SubSeq(newLines, 1, block.startLine) \o replacementLines
    \o SubSeq(newLines, block.endLine, Len(newLines))

(* the loop over fileData.blocks from the last block to the first *)
RECURSIVE PatchBlocks(_, _, _, _)
PatchBlocks(newLines, fblocks, i, blocks) ==
  IF i < 1 THEN newLines
  ELSE PatchBlocks(
         Splice(newLines, fblocks[i], ReplacementLines(newLines, fblocks[i], blocks)),
         fblocks, i - 1, blocks)

(* PatchFile that reports every file as modified *)
PatchFileAlwaysModified(fileData, blocks) ==
  [modified |-> TRUE,
   newLines |-> PatchBlocks(fileData.lines, fileData.blocks,
                            Len(fileData.blocks), blocks)]

(* one iteration of the loop over this.files: the new lines and whether    *)
(* the file is written                                                     *)
PatchFile(fileData, blocks) ==
  [modified |-> Len(fileData.blocks) > 0,
   newLines |-> PatchBlocks(fileData.lines, fileData.blocks,
                            Len(fileData.blocks), blocks)]

(***************************************************************************)
(* State.                                                                  *)
(*   disk     the files the glob pattern matches, in the order glob        *)
(*            returns them; a file path is its index                       *)
(*   pc       "idle" (no process() call in progress), "pass1", "pass2",    *)
(*            "exited" (process.exit(1) in the catch of process())         *)
(*   runs     number of process() calls that returned                     *)
(*   fileIdx  position of parseFiles in filePaths                          *)
(*   outIdx   position of generateOutput in this.files                     *)
(*   blocks   this.blocks                                                  *)
(*   files    this.files, in insertion order (trace is history)            *)
(*   written  history: paths handed to fs.writeFileSync by this call       *)
(*   before   history: the disk when the current process() call started    *)
(***************************************************************************)
VARIABLES disk, pc, runs, fileIdx, outIdx, blocks, files, written, before

vars == <<disk, pc, runs, fileIdx, outIdx, blocks, files, written, before>>

(* reset keeping the registry of the parser *)
resetKeepRegistry(parser) == [blocks |-> parser.blocks, files |-> <<>>]

(* reset(), lines 13-16: both maps of the parser are new and empty *)
reset(parser) == [blocks |-> EmptyBlocks, files |-> <<>>]

(* process(), lines 425-443: reset, glob, early return when nothing matches *)
Process ==
  /\ pc = "idle"
  /\ runs < MaxRuns
  /\ blocks' = reset([blocks |-> blocks, files |-> files]).blocks
  /\ files' = reset([blocks |-> blocks, files |-> files]).files
  /\ written' = {}
  /\ before' = disk
  /\ fileIdx' = 1
  /\ outIdx' = 1
  /\ IF Len(disk) = 0
       THEN pc' = "idle" /\ runs' = runs + 1
       ELSE pc' = "pass1" /\ runs' = runs
  /\ UNCHANGED disk

(* AfterParse starting pass 2 as soon as one file is scanned *)
AfterParseOneFile(idx) == "pass2"

(* where process() goes after parseFile returned for filePaths[idx] *)
AfterParse(idx) == IF idx = Len(disk) THEN "pass2" ELSE "pass1"

(* one iteration of parseFiles: parseFile returns *)
ParseFileReturns ==
  /\ pc = "pass1"
  /\ LET r == parseFile(disk[fileIdx], fileIdx, blocks)
     IN /\ ~r.throws
        /\ blocks' = r.blocks
        /\ files' = Append(files, r.fileData)
  /\ pc' = AfterParse(fileIdx)
  /\ fileIdx' = fileIdx + 1
  /\ UNCHANGED <<disk, runs, outIdx, written, before>>

(* one iteration of parseFiles: parseTemplateLine throws, process()        *)
(* catches the error and exits the program                                 *)
ParseFileThrows ==
  /\ pc = "pass1"
  /\ LET r == parseFile(disk[fileIdx], fileIdx, blocks)
     IN /\ r.throws
        /\ blocks' = r.blocks
  /\ pc' = "exited"
  /\ UNCHANGED <<disk, runs, fileIdx, outIdx, files, written, before>>

(* fs.writeFileSync(filePath, newLines.join('\n')): the file is rewritten  *)
(* with LF terminators                                                     *)
WriteFile(d, filePath, newLines) ==
  [d EXCEPT ![filePath] = [lines |-> newLines, crlf |-> FALSE]]

(* one iteration of the loop of generateOutput over this.files *)
GenerateOutput ==
  /\ pc = "pass2"
  /\ LET p == PatchFile(files[outIdx], blocks)
     IN IF p.modified
          THEN /\ disk' = WriteFile(disk, outIdx, p.newLines)
               /\ written' = written \cup {outIdx}
          ELSE UNCHANGED <<disk, written>>
  /\ IF outIdx = Len(files)
       THEN pc' = "idle" /\ runs' = runs + 1
       ELSE pc' = "pass2" /\ runs' = runs
  /\ outIdx' = outIdx + 1
  /\ UNCHANGED <<fileIdx, blocks, files, before>>

Next == Process \/ ParseFileReturns \/ ParseFileThrows \/ GenerateOutput

(***************************************************************************)
(* Input files.                                                            *)
(***************************************************************************)
SeqsUpTo(S, n) == UNION {[1..k -> S] : k \in 1..n}

RECURSIVE Flatten(_)
Flatten(ss) == IF ss = <<>> THEN <<>> ELSE Head(ss) \o Flatten(Tail(ss))

DefaultX == Dir(1, 1, "block_default", 1, "X")
ReplaceX == Dir(0, 1, "block_replace", 1, "X")
AppendX == Dir(0, 1, "block_append", 1, "X")
BlockX == Dir(1, 1, "block", 1, "X")
EndBlock == Dir(1, 1, "endblock", 0, "")
Malformed == Dir(0, 1, "block_append", 0, "")
MalformedTwo == Dir(0, 1, "block_replace", 2, "X")

(* Multi-file inputs: every file is one to MaxChunks chunks *)
Chunks ==
  { <<DefaultX, Cmt(1, 3, "d"), Code(1, "d"), EndBlock>>,
    <<ReplaceX, Cmt(0, 3, "a"), AppendX, Cmt(0, 3, "b")>>,
    <<ReplaceX>>,
    <<AppendX, Cmt(0, 3, "c"), Cmt(0, 4, "c")>>,
    <<BlockX, Code(0, "g"), EndBlock>>,
    <<MalformedTwo>> }

ChunkFiles == {Flatten(cs) : cs \in SeqsUpTo(Chunks, MaxChunks)}

LfFile(lines) == [lines |-> lines, crlf |-> FALSE]

InitState(d) ==
  /\ disk = d
  /\ pc = "idle"
  /\ runs = 0
  /\ fileIdx = 1
  /\ outIdx = 1
  /\ blocks = EmptyBlocks
  /\ files = <<>>
  /\ written = {}
  /\ before = d

Init ==
  \E d \in UNION {[1..n -> {LfFile(l) : l \in ChunkFiles}] : n \in 0..MaxFiles} :
    InitState(d)

Spec == Init /\ [][Next]_vars

(* Single-file inputs: every sequence of one to MaxLines lines over one of *)
(* two alphabets                                                           *)
CoreAlphabet ==
  { DefaultX, ReplaceX, EndBlock, Malformed, Cmt(1, 1, "a"), Code(1, "a") }

AlphabetA == CoreAlphabet \cup { AppendX, BlockX, Cmt(1, 0, ""), Blank }

AlphabetB ==
  CoreAlphabet \cup
    { Cmt(0, 1, "b"), Cmt(1, 1, "@-"), Cmt(1, 2, "// n"), Dir(1, 1, "todo", 2, "X") }

(* commands that are none of the five known ones, with zero, one and two   *)
(* arguments (AlphabetB has the one with two)                              *)
AlphabetC ==
  CoreAlphabet \cup
    { Dir(1, 1, "todo", 0, ""), Dir(1, 1, "todo", 1, "Y"), Dir(0, 3, "include", 1, "X"),
      Dir(0, 1, "include", 2, "Y") }

(* @endblock lines with extra tokens, and a second identifier *)
AlphabetD ==
  CoreAlphabet \cup
    { Dir(1, 1, "endblock", 1, "X"), Dir(0, 1, "endblock", 2, "X"),
      Dir(1, 1, "block_default", 1, "Y") }

LineFiles ==
  SeqsUpTo(AlphabetA, MaxLines) \cup SeqsUpTo(AlphabetB, MaxLines)
    \cup SeqsUpTo(AlphabetC, MaxLines) \cup SeqsUpTo(AlphabetD, MaxLines)

InitLines == \E l \in LineFiles : InitState(<<LfFile(l)>>)

SpecLines == InitLines /\ [][Next]_vars

(* Single-file inputs with either line terminator *)
InitCrlf ==
  \E l \in ChunkFiles, c \in BOOLEAN : InitState(<<[lines |-> l, crlf |-> c]>>)

SpecCrlf == InitCrlf /\ [][Next]_vars

(* Single-file inputs that vary the widths: an opening directive with     *)
(* leading whitespace 0..MaxInd and 0..MaxCs spaces after the //, a body   *)
(* of one or two comments with widths in the same ranges, then either the  *)
(* generated line and the @endblock of a block_default or, for a           *)
(* block_replace, a @block span to fill                                    *)
BodyLines ==
  { Cmt(i, c, t) : i \in 0..MaxInd, c \in 0..MaxCs, t \in {"a", ""} }

IndentFiles ==
  { <<Dir(di, dc, "block_default", 1, "X")>> \o body
      \o <<Code(k, "g"), Dir(di, 1, "endblock", 0, "")>> :
        di \in 0..MaxInd, dc \in 0..MaxCs, k \in 0..MaxInd,
        body \in SeqsUpTo(BodyLines, 2) }
  \cup
  { <<Dir(di, dc, "block_replace", 1, "X")>> \o body
      \o <<Dir(k, 1, "block", 1, "X"), Code(k, "g"), Dir(k, 1, "endblock", 0, "")>> :
        di \in 0..MaxInd, dc \in 0..MaxCs, k \in 0..MaxInd,
        body \in SeqsUpTo(BodyLines, 2) }

InitIndent == \E l \in IndentFiles : InitState(<<LfFile(l)>>)

(* The examples of the README and of the tests: the nested block at four   *)
(* spaces whose body has four additional spaces, with and without the old  *)
(* generated line and the @endblock of testNestedIndentation; the LICENSE  *)
(* block filled from another file; the replace body with nested lines, an  *)
(* empty comment and a commented line of testReplaceWithTemplateComments,  *)
(* also with a last line that has fewer spaces than the first; a @block    *)
(* marker whose span holds a comment, for an identifier that also has a    *)
(* block_default and a block_append; two spans of two identifiers in one   *)
(* file as in testMultipleBlocks, the first growing and the second         *)
(* shrinking; the three files of Complex Multi-File Templates with targets *)
(* at two indentations; two block_default of one identifier with different *)
(* bodies in two files                                                     *)
ExampleDisks ==
  { <<LfFile(<<Dir(4, 1, "block_default", 1, "X"), Cmt(4, 5, "a"), Cmt(4, 5, "b"),
               Code(4, "g"), Dir(4, 1, "endblock", 0, "")>>)>>,
    <<LfFile(<<Dir(4, 1, "block_default", 1, "X"), Cmt(4, 5, "a"), Cmt(4, 5, "b")>>)>>,
    <<LfFile(<<Dir(0, 1, "block_replace", 1, "X"), Cmt(0, 3, "// n"), Cmt(0, 3, "// n")>>),
      LfFile(<<Dir(0, 1, "block", 1, "X"), Dir(0, 1, "endblock", 0, ""), Blank,
               Code(0, "g")>>)>>,
    <<LfFile(<<Dir(0, 1, "block_default", 1, "X"), Dir(0, 1, "endblock", 0, ""), Blank,
               Dir(0, 1, "block_replace", 1, "X"), Cmt(0, 3, "a"), Cmt(0, 5, "b"),
               Cmt(0, 0, ""), Cmt(0, 5, "// n"), Cmt(0, 3, "a")>>)>>,
    <<LfFile(<<Dir(0, 1, "block_default", 1, "X"), Dir(0, 1, "endblock", 0, ""), Blank,
               Dir(0, 1, "block_replace", 1, "X"), Cmt(0, 3, "a"), Cmt(0, 5, "b"),
               Cmt(0, 0, ""), Cmt(0, 1, "c")>>)>>,
    <<LfFile(<<Dir(1, 1, "block", 1, "X"), Cmt(1, 1, "a"), Code(1, "g"),
               Dir(1, 1, "endblock", 0, ""),
               Dir(1, 1, "block_default", 1, "X"), Cmt(1, 3, "d"), Code(1, "d"),
               Dir(1, 1, "endblock", 0, ""),
               Dir(0, 1, "block_append", 1, "X"), Cmt(0, 3, "c")>>)>>,
    <<LfFile(<<Code(0, "f"),
               Dir(2, 1, "block_default", 1, "X"), Cmt(2, 3, "a"), Code(2, "g"),
               Dir(2, 1, "endblock", 0, ""),
               Code(0, "f"),
               Dir(2, 1, "block_default", 1, "Y"), Cmt(2, 3, "b"), Code(2, "g"),
               Code(2, "g"), Dir(2, 1, "endblock", 0, ""),
               Code(0, "h"), Blank,
               Dir(0, 1, "block_replace", 1, "X"), Cmt(0, 3, "c"), Cmt(0, 3, "c"),
               Cmt(0, 3, "c"), Blank, Cmt(0, 3, "n"),
               Dir(0, 1, "block_append", 1, "Y"), Cmt(0, 3, "c"),
               Dir(0, 1, "block_replace", 1, "Y")>>)>>,
    <<LfFile(<<Dir(0, 1, "block_replace", 1, "X"), Cmt(0, 3, "a"), Cmt(0, 5, "b"),
               Cmt(0, 3, ""), Cmt(0, 3, "a")>>),
      LfFile(<<Code(0, "h"), Dir(0, 1, "block_default", 1, "X"), Cmt(0, 3, "d"),
               Code(0, "d"), Dir(0, 1, "endblock", 0, ""), Code(0, "h")>>),
      LfFile(<<Dir(2, 1, "block", 1, "X"), Code(2, "g"), Dir(2, 1, "endblock", 0, ""),
               Code(0, "h")>>)>>,
    <<LfFile(<<Dir(0, 1, "block_default", 1, "X"), Cmt(0, 3, "a"), Code(0, "a"),
               Dir(0, 1, "endblock", 0, "")>>),
      LfFile(<<Dir(1, 1, "block_default", 1, "X"), Cmt(1, 3, "b"), Code(1, "b"),
               Dir(1, 1, "endblock", 0, ""),
               Dir(0, 1, "block", 1, "X"), Dir(0, 1, "endblock", 0, "")>>)>> }

InitExamples == \E d \in ExampleDisks : InitState(d)

(* All inputs *)
InitAll == Init \/ InitLines \/ InitCrlf \/ InitIndent \/ InitExamples

SpecAll == InitAll /\ [][Next]_vars

(* one iteration of the loop of parseFiles, seen from process(): it goes   *)
(* on to the next file or leaves pass 1 (parseFile returned or threw)      *)
ParseFilesStep ==
  /\ pc = "pass1"
  /\ pc' \in {"pass1", "pass2", "exited"}
  /\ fileIdx' \in {fileIdx, fileIdx + 1}
  /\ pc' = "pass1" => fileIdx' = fileIdx + 1

(* process() awaits parseFiles, and the loop of parseFiles is not left     *)
(* waiting between two files: an iteration that can be taken is taken      *)
SpecFair == SpecAll /\ WF_<<pc, fileIdx>>(ParseFilesStep)

(***************************************************************************)
(* Vocabulary of the properties.  While a process() call is in pass 2 or   *)
(* has returned, this.files holds the lines every file had when it was     *)
(* scanned and disk holds what generateOutput left.                        *)
(***************************************************************************)
Processed(f) ==
  /\ pc \in {"pass2", "idle"}
  /\ f \in 1..Len(files)
  /\ f < outIdx

OrigLines(f) == files[f].lines

OutLines(f) == disk[f].lines

FBlocks(f) == files[f].blocks

(* lines strictly between the opening directive and its terminator *)
OrigInterior(f, k) ==
  SubSeq(OrigLines(f), FBlocks(f)[k].startLine + 1, FBlocks(f)[k].endLine - 1)

(* growth of block j of file f: lines put in minus lines taken out *)
Delta(f, j) ==
  Len(ReplacementLines(OrigLines(f), FBlocks(f)[j], blocks))
    - (FBlocks(f)[j].endLine - FBlocks(f)[j].startLine - 1)

RECURSIVE SumDelta(_, _, _)
SumDelta(f, lo, hi) ==
  IF lo > hi THEN 0 ELSE Delta(f, lo) + SumDelta(f, lo + 1, hi)

(* where the opening directive and the terminator of block k are in the    *)
(* output: the first is found from the top of the file, the second from    *)
(* its bottom                                                              *)
OutStart(f, k) == FBlocks(f)[k].startLine + SumDelta(f, 1, k - 1)

OutEnd(f, k) ==
  Len(OutLines(f)) - (Len(OrigLines(f)) - FBlocks(f)[k].endLine)
    - SumDelta(f, k + 1, Len(FBlocks(f)))

OutInterior(f, k) == SubSeq(OutLines(f), OutStart(f, k) + 1, OutEnd(f, k) - 1)

(* the content items as lines at indentation ind *)
Emitted(items, ind) == [i \in 1..Len(items) |-> EmitItem(items[i], ind)]

(* indentation of the first code line of block k of file f *)
SpanIndent(f, k) ==
  ExistingIndent(OrigLines(f), FBlocks(f)[k].startLine + 1, FBlocks(f)[k].endLine)

(* out is some comment lines followed by exactly tail *)
EndsWith(out, tail) ==
  LET m == Len(out) - Len(tail)
  IN /\ m >= 0
     /\ SubSeq(out, m + 1, Len(out)) = tail
     /\ \A i \in 1..m : out[i].kind = "cmt"

RECURSIVE ContentFrom(_, _)
ContentFrom(occs, i) ==
  IF i > Len(occs) THEN <<>> ELSE occs[i].content \o ContentFrom(occs, i + 1)

(***************************************************************************)
(* C1.  Precedence: in every rewritten span of identifier b the generated  *)
(* lines are Rn ++ A1 ++ ... ++ Am when b has n >= 1 replaces, D ++ A1 ++  *)
(* ... ++ Am when it has none and a default, A1 ++ ... ++ Am otherwise.    *)
(***************************************************************************)
PrecedenceContent(info) ==
  LET n == Len(info.replaces)
      base == IF n >= 1 THEN info.replaces[n].content
              ELSE IF info.hasDefault THEN info.default.content
              ELSE <<>>
  IN base \o ContentFrom(info.appends, 1)

C1_Precedence ==
  \A f \in 1..Len(files) :
    Processed(f) =>
      \A k \in 1..Len(FBlocks(f)) :
        EndsWith(OutInterior(f, k),
                 Emitted(PrecedenceContent(blocks[FBlocks(f)[k].blockId]),
                         SpanIndent(f, k)))

C1_Witness ==
  \E f \in 1..Len(files) :
    /\ Processed(f)
    /\ \E k \in 1..Len(FBlocks(f)) :
         LET info == blocks[FBlocks(f)[k].blockId]
         IN /\ info.hasDefault
            /\ Len(info.replaces) >= 2
            /\ Len(info.appends) >= 2
            /\ info.replaces[1].content # info.replaces[Len(info.replaces)].content
            /\ info.default.content # <<>>
            /\ info.appends[1].content # info.appends[2].content

(***************************************************************************)
(* C2.  Idempotence: a process() call that runs on the output of an        *)
(* earlier call changes no file.                                           *)
(***************************************************************************)
C2_Idempotent ==
  (pc = "idle" /\ runs >= 2 /\ Len(files) > 0) => disk = before

(***************************************************************************)
(* Frame of pass 2.  A line of the scanned file is inside a span when it   *)
(* is strictly between an opening directive and its terminator; every      *)
(* other line moves down by the growth of the spans that end above it.     *)
(***************************************************************************)
Inside(f, i) ==
  \E k \in 1..Len(FBlocks(f)) :
    FBlocks(f)[k].startLine < i /\ i < FBlocks(f)[k].endLine

RECURSIVE ShiftAt(_, _, _)
ShiftAt(f, i, k) ==
  IF k > Len(FBlocks(f)) THEN 0
  ELSE (IF FBlocks(f)[k].endLine <= i THEN Delta(f, k) ELSE 0) + ShiftAt(f, i, k + 1)

LinesOutsideKept(f) ==
  /\ Len(OutLines(f)) = Len(OrigLines(f)) + SumDelta(f, 1, Len(FBlocks(f)))
  /\ \A i \in 1..Len(OrigLines(f)) :
       ~Inside(f, i) =>
         /\ i + ShiftAt(f, i, 1) \in 1..Len(OutLines(f))
         /\ OutLines(f)[i + ShiftAt(f, i, 1)] = OrigLines(f)[i]

(***************************************************************************)
(* C3.  Preservation: after pass 2 every byte of a file outside its spans  *)
(* is as it was: the lines outside the spans and the line terminators.     *)
(***************************************************************************)
C3_Preservation ==
  \A f \in 1..Len(files) :
    Processed(f) =>
      /\ LinesOutsideKept(f)
      /\ disk[f].crlf = before[f].crlf

(***************************************************************************)
(* C4.  Nothing is written before pass 1 has scanned every file, and so    *)
(* every append and the last replace of an identifier, whichever file      *)
(* holds them, are in the output of every span of that identifier.         *)
(***************************************************************************)
IsInfix(s, t) ==
  \E o \in 0..(Len(t) - Len(s)) : SubSeq(t, o + 1, o + Len(s)) = s

C4_TwoPass ==
  /\ (written # {} \/ disk # before) =>
       (pc \in {"pass2", "idle"} /\ Len(files) = Len(disk))
  /\ \A f \in 1..Len(files) :
       Processed(f) =>
         \A k \in 1..Len(FBlocks(f)) :
           LET info == blocks[FBlocks(f)[k].blockId]
               n == Len(info.replaces)
           IN /\ \A i \in 1..Len(info.appends) :
                   IsInfix(Emitted(info.appends[i].content, SpanIndent(f, k)),
                           OutInterior(f, k))
              /\ n >= 1 =>
                   IsInfix(Emitted(info.replaces[n].content, SpanIndent(f, k)),
                           OutInterior(f, k))

C4_Witness ==
  \E f \in 1..Len(files) :
    /\ Processed(f)
    /\ f \in written
    /\ \E k \in 1..Len(FBlocks(f)) :
         /\ FBlocks(f)[k].type = "block_default"
         /\ \E i \in 1..Len(blocks[FBlocks(f)[k].blockId].appends) :
              LET a == blocks[FBlocks(f)[k].blockId].appends[i]
              IN a.filePath > f /\ a.content # <<>>

(***************************************************************************)
(* C5.  A block directive with zero or with several arguments, anywhere in *)
(* any input file, makes the scan of its file throw, and the process()     *)
(* call that met it writes no file and never reaches pass 2.               *)
(***************************************************************************)
IsMalformed(line) ==
  line.kind = "dir" /\ line.cmd \in BlockCommands /\ line.nargs # 1

HasMalformed(lines) == \E i \in 1..Len(lines) : IsMalformed(lines[i])

C5_MalformedAborts ==
  /\ (\E f \in 1..Len(before) : HasMalformed(before[f].lines)) =>
       /\ written = {}
       /\ disk = before
       /\ pc \in {"idle", "pass1", "exited"}
       /\ pc = "idle" => files = <<>>
  /\ (pc = "pass1" /\ HasMalformed(disk[fileIdx].lines)) =>
       parseFile(disk[fileIdx], fileIdx, blocks).throws

C5_Witness ==
  /\ pc = "exited"
  /\ fileIdx = 2
  /\ Len(files) = 1
  /\ files[1].blocks # <<>>
  /\ written = {}

(***************************************************************************)
(* C6.  Discovery order: the replace list and the append list of every     *)
(* registry entry are in file order, then line order; once pass 1 is over  *)
(* they hold exactly the replace and append directives of that identifier  *)
(* that lie outside the spans, each with the comment lines that follow it. *)
(***************************************************************************)
Earlier(a, b) ==
  a.filePath < b.filePath \/ (a.filePath = b.filePath /\ a.line < b.line)

InDiscoveryOrder(occs) ==
  \A i \in 1..Len(occs) : \A j \in 1..Len(occs) : i < j => Earlier(occs[i], occs[j])

PassOneOver == pc \in {"pass2", "idle"} /\ Len(files) = Len(disk)

Positions(occs) == {<<occs[i].filePath, occs[i].line>> : i \in 1..Len(occs)}

Directives(cmd, b) ==
  UNION { { <<f, l>> : l \in { i \in 1..Len(OrigLines(f)) :
                                 /\ OrigLines(f)[i].kind = "dir"
                                 /\ OrigLines(f)[i].cmd = cmd
                                 /\ OrigLines(f)[i].nargs = 1
                                 /\ OrigLines(f)[i].id = b
                                 /\ ~Inside(f, i) } }
          : f \in 1..Len(files) }

HoldsFollowingLines(occs) ==
  \A i \in 1..Len(occs) :
    /\ occs[i].filePath \in 1..Len(files)
    /\ \A k \in 1..Len(occs[i].content) :
         /\ occs[i].line + k <= Len(OrigLines(occs[i].filePath))
         /\ occs[i].content[k].originalLine
              = OrigLines(occs[i].filePath)[occs[i].line + k]

C6_DiscoveryOrder ==
  \A b \in Ids :
    /\ InDiscoveryOrder(blocks[b].replaces)
    /\ InDiscoveryOrder(blocks[b].appends)
    /\ PassOneOver =>
         /\ Positions(blocks[b].replaces) = Directives("block_replace", b)
         /\ Positions(blocks[b].appends) = Directives("block_append", b)
         /\ HoldsFollowingLines(blocks[b].replaces)
         /\ HoldsFollowingLines(blocks[b].appends)

C6_Witness ==
  /\ PassOneOver
  /\ \E b \in Ids :
       /\ Len(blocks[b].appends) >= 3
       /\ blocks[b].appends[1].filePath = blocks[b].appends[2].filePath
       /\ blocks[b].appends[2].filePath < blocks[b].appends[3].filePath
       /\ Len(blocks[b].replaces) >= 1

(***************************************************************************)
(* C7.  A file is written only if pass 2 changed its line sequence.        *)
(***************************************************************************)
C7_WrittenOnlyIfChanged ==
  \A f \in 1..Len(files) :
    (Processed(f) /\ f \in written) => OutLines(f) # OrigLines(f)

(***************************************************************************)
(* C8.  A file without a block_default or block directive is never         *)
(* written, and the directive line and the body lines of every registered  *)
(* block_replace and block_append are in the output as they were scanned.  *)
(***************************************************************************)
IsTarget(line) ==
  line.kind = "dir" /\ line.cmd \in {"block_default", "block"}

HasTarget(lines) == \E i \in 1..Len(lines) : IsTarget(lines[i])

SourceLinesKept(occs) ==
  \A i \in 1..Len(occs) :
    LET f == occs[i].filePath
    IN Processed(f) =>
         \A l \in occs[i].line..(occs[i].line + Len(occs[i].content)) :
           /\ l + ShiftAt(f, l, 1) \in 1..Len(OutLines(f))
           /\ OutLines(f)[l + ShiftAt(f, l, 1)] = OrigLines(f)[l]

C8_OnlyTargets ==
  /\ \A f \in 1..Len(before) :
       ~HasTarget(before[f].lines) => (f \notin written /\ disk[f] = before[f])
  /\ \A b \in Ids :
       SourceLinesKept(blocks[b].replaces) /\ SourceLinesKept(blocks[b].appends)

C8_Witness ==
  \E f \in 1..Len(files), g \in 1..Len(files) :
    /\ Processed(f) /\ Processed(g)
    /\ f \in written
    /\ g \notin written
    /\ \E b \in Ids :
         /\ \E i \in 1..Len(blocks[b].replaces) :
              /\ blocks[b].replaces[i].filePath = f
              /\ blocks[b].replaces[i].content # <<>>
              /\ ShiftAt(f, blocks[b].replaces[i].line, 1) # 0
         /\ \E i \in 1..Len(blocks[b].appends) :
              blocks[b].appends[i].filePath = g

(***************************************************************************)
(* C9.  Default only: when an identifier has no replace and no append, the *)
(* span of a block_default of it is, after pass 2, a prefix of comment     *)
(* lines of the old span followed by exactly the default content; no other *)
(* line of the old span is left.                                           *)
(***************************************************************************)
C9_DefaultOnly ==
  \A f \in 1..Len(files) :
    Processed(f) =>
      \A k \in 1..Len(FBlocks(f)) :
        LET info == blocks[FBlocks(f)[k].blockId]
            old == OrigInterior(f, k)
        IN (/\ FBlocks(f)[k].type = "block_default"
            /\ info.replaces = <<>>
            /\ info.appends = <<>>) =>
             /\ info.hasDefault
             /\ \E n \in 0..Len(old) :
                  /\ \A i \in 1..n : old[i].kind = "cmt"
                  /\ OutInterior(f, k)
                       = SubSeq(old, 1, n)
                           \o Emitted(info.default.content, SpanIndent(f, k))

C9_Witness ==
  \E f \in 1..Len(files) :
    /\ Processed(f)
    /\ \E k \in 1..Len(FBlocks(f)) :
         LET info == blocks[FBlocks(f)[k].blockId]
             old == OrigInterior(f, k)
         IN /\ FBlocks(f)[k].type = "block_default"
            /\ info.replaces = <<>>
            /\ info.appends = <<>>
            /\ info.default.content # <<>>
            /\ \E i \in 1..Len(old) : old[i].kind = "code"
            /\ OutInterior(f, k) # old

(***************************************************************************)
(* C10.  Empty block, as claimed: when the replace that wins has no        *)
(* content line and the identifier has no append, nothing is left between  *)
(* the opening directive of a block_default and its terminator.            *)
(***************************************************************************)
EmptyReplaceOnly(info) ==
  /\ Len(info.replaces) >= 1
  /\ info.replaces[Len(info.replaces)].content = <<>>
  /\ info.appends = <<>>

C10_EmptyCollapses ==
  \A f \in 1..Len(files) :
    Processed(f) =>
      \A k \in 1..Len(FBlocks(f)) :
        (/\ FBlocks(f)[k].type = "block_default"
         /\ EmptyReplaceOnly(blocks[FBlocks(f)[k].blockId])) =>
           OutInterior(f, k) = <<>>

(***************************************************************************)
(* C10, amended.  In that case the span keeps its leading template comment *)
(* lines (comments that are not empty, do not start with @ and are         *)
(* indented at least as the opening directive) and nothing else.           *)
(***************************************************************************)
IsTemplateComment(line, indent) ==
  /\ line.kind = "cmt"
  /\ line.text \notin {"", "@-"}
  /\ line.ind + 2 + line.cs >= indent

C10_CollapsesToComments ==
  \A f \in 1..Len(files) :
    Processed(f) =>
      \A k \in 1..Len(FBlocks(f)) :
        LET old == OrigInterior(f, k)
            out == OutInterior(f, k)
            n == Len(out)
            indent == FBlocks(f)[k].indent
        IN (/\ FBlocks(f)[k].type = "block_default"
            /\ EmptyReplaceOnly(blocks[FBlocks(f)[k].blockId])) =>
             /\ n <= Len(old)
             /\ out = SubSeq(old, 1, n)
             /\ \A i \in 1..n : IsTemplateComment(old[i], indent)
             /\ n < Len(old) => ~IsTemplateComment(old[n + 1], indent)

C10_Witness ==
  \E f \in 1..Len(files) :
    /\ Processed(f)
    /\ f \in written
    /\ \E k \in 1..Len(FBlocks(f)) :
         /\ FBlocks(f)[k].type = "block_default"
         /\ EmptyReplaceOnly(blocks[FBlocks(f)[k].blockId])
         /\ OutInterior(f, k) # <<>>
         /\ Len(OutInterior(f, k)) < Len(OrigInterior(f, k))

(***************************************************************************)
(* C11.  Template comments kept: after a block_default span is processed,  *)
(* every comment line that pass 1 extracted as the default content of that *)
(* block is still there, verbatim and in order, directly after the opening *)
(* directive.                                                              *)
(***************************************************************************)
C11_TemplateCommentsKept ==
  \A f \in 1..Len(files) :
    Processed(f) =>
      \A k \in 1..Len(FBlocks(f)) :
        FBlocks(f)[k].type = "block_default" =>
          LET content == FBlocks(f)[k].content
              out == OutInterior(f, k)
          IN /\ Len(out) >= Len(content)
             /\ \A i \in 1..Len(content) : out[i] = content[i].originalLine

(***************************************************************************)
(* C12.  Generated indentation: the indentation of the generated lines of  *)
(* a span is the leading whitespace of the first line of the original span *)
(* that is neither blank nor a comment, empty when there is none; every    *)
(* resolved content line that is not blank comes out as that indentation   *)
(* followed by its normalized text, so two lines of one body with equal    *)
(* template indentation come out at equal indentation.                     *)
(***************************************************************************)
FirstCodeIndent(span) ==
  LET codeAt == {i \in 1..Len(span) : span[i].kind = "code"}
  IN IF codeAt = {} THEN 0
     ELSE span[CHOOSE i \in codeAt : \A j \in codeAt : i <= j].ind

(* content items with the run they come from: 0 for the base, a for the    *)
(* a-th append                                                             *)
TagItems(content, run) ==
  [i \in 1..Len(content) |-> [item |-> content[i], run |-> run]]

RECURSIVE TagAppends(_, _)
TagAppends(occs, a) ==
  IF a > Len(occs) THEN <<>>
  ELSE TagItems(occs[a].content, a) \o TagAppends(occs, a + 1)

ResolvedRuns(info) ==
  LET n == Len(info.replaces)
      base == IF n >= 1 THEN info.replaces[n].content
              ELSE IF info.hasDefault THEN info.default.content
              ELSE <<>>
  IN TagItems(base, 0) \o TagAppends(info.appends, 1)

C12_GeneratedIndent ==
  \A f \in 1..Len(files) :
    Processed(f) =>
      \A k \in 1..Len(FBlocks(f)) :
        LET R == ResolvedRuns(blocks[FBlocks(f)[k].blockId])
            out == OutInterior(f, k)
            m == Len(out) - Len(R)
            ind == FirstCodeIndent(OrigInterior(f, k))
        IN /\ m >= 0
           /\ \A i \in 1..Len(R) :
                ~R[i].item.isEmpty =>
                  out[m + i] = TextLine(ind + R[i].item.finalSp, R[i].item.finalText)
           /\ \A i, j \in 1..Len(R) :
                (/\ R[i].run = R[j].run
                 /\ ~R[i].item.isEmpty /\ ~R[j].item.isEmpty
                 /\ R[i].item.commentSpaces = R[j].item.commentSpaces)
                  => out[m + i].ind = out[m + j].ind

(* a processed span whose code line is indented and whose body has two     *)
(* lines at equal template indentation, after a comment the scan skipped   *)
C12_Witness ==
  \E f \in 1..Len(files) :
    /\ Processed(f)
    /\ \E k \in 1..Len(FBlocks(f)) :
         LET R == ResolvedRuns(blocks[FBlocks(f)[k].blockId])
             span == OrigInterior(f, k)
         IN /\ FirstCodeIndent(span) >= 1
            /\ Len(span) >= 2
            /\ span[1].kind = "cmt"
            /\ span[1].ind # FirstCodeIndent(span)
            /\ \E i, j \in 1..Len(R) :
                 /\ i < j
                 /\ R[i].run = R[j].run
                 /\ ~R[i].item.isEmpty /\ ~R[j].item.isEmpty
                 /\ R[i].item.commentSpaces = R[j].item.commentSpaces
                 /\ R[i].item.commentSpaces >= 2

(***************************************************************************)
(* C13.  Template indent: within one content run the template indent is    *)
(* the spaces prefix of the first accepted line with non-blank text, fixed *)
(* for the run; a line whose spaces prefix starts with it has exactly that *)
(* prefix stripped and keeps the rest as literal content, a line with a    *)
(* shorter prefix is emitted with no indentation.                          *)
(***************************************************************************)
(* every content run the registry holds for identifier b *)
RunsOf(b) ==
  (IF blocks[b].hasDefault THEN {blocks[b].default.content} ELSE {})
    \cup {blocks[b].replaces[i].content : i \in 1..Len(blocks[b].replaces)}
    \cup {blocks[b].appends[i].content : i \in 1..Len(blocks[b].appends)}

FirstTextItem(run) ==
  CHOOSE i \in 1..Len(run) :
    /\ ~run[i].isEmpty
    /\ \A j \in 1..(i - 1) : run[j].isEmpty

C13_TemplateIndent ==
  \A b \in Ids :
    \A run \in RunsOf(b) :
      (\E i \in 1..Len(run) : ~run[i].isEmpty) =>
        LET templateIndent == run[FirstTextItem(run)].commentSpaces
        IN \A i \in 1..Len(run) :
             ~run[i].isEmpty =>
               /\ run[i].finalText = run[i].contentText
               /\ run[i].commentSpaces >= templateIndent
                    => run[i].finalSp = run[i].commentSpaces - templateIndent
               /\ run[i].commentSpaces < templateIndent => run[i].finalSp = 0

(* a run whose first text line has spaces, with a deeper line that is not  *)
(* the first, an empty comment, and a line with fewer spaces               *)
C13_Witness ==
  \E b \in Ids :
    \E run \in RunsOf(b) :
      /\ \E i \in 1..Len(run) : ~run[i].isEmpty
      /\ run[FirstTextItem(run)].commentSpaces >= 2
      /\ \E i, j, e \in 1..Len(run) :
           /\ ~run[i].isEmpty /\ ~run[j].isEmpty /\ run[e].isEmpty
           /\ run[i].commentSpaces > run[FirstTextItem(run)].commentSpaces
           /\ run[i].finalSp >= 1
           /\ run[j].commentSpaces < run[FirstTextItem(run)].commentSpaces

(***************************************************************************)
(* C14.  Indentation added: the indentation of the target location is      *)
(* added to the template indentation.  For a block_default filled from its *)
(* own body, a body line that has n more spaces after the // than the      *)
(* directive, under a directive at base indentation, is generated with     *)
(* base + n leading spaces (4 + 4 = 8 in the example of the README).       *)
(***************************************************************************)
C14_IndentAdded ==
  \A f \in 1..Len(files) :
    Processed(f) =>
      \A k \in 1..Len(FBlocks(f)) :
        LET block == FBlocks(f)[k]
            info == blocks[block.blockId]
            directive == OrigLines(f)[block.startLine]
            out == OutInterior(f, k)
            m == Len(out) - Len(block.content)
        IN (/\ block.type = "block_default"
            /\ info.replaces = <<>> /\ info.appends = <<>>
            /\ info.default.filePath = f /\ info.default.line = block.startLine)
             => /\ m >= 0
                /\ \A i \in 1..Len(block.content) :
                     LET item == block.content[i]
                     IN (/\ ~item.isEmpty
                         /\ item.indent = directive.ind
                         /\ item.commentSpaces >= directive.cs)
                          => out[m + i].ind
                               = directive.ind + (item.commentSpaces - directive.cs)

(***************************************************************************)
(* C15.  Empty comments: a comment line that is only // inside a template  *)
(* body is accepted into the content run whatever its indentation, and is  *)
(* generated as an empty line with no indentation.                         *)
(***************************************************************************)
(* every occurrence the registry holds for identifier b *)
OccsOf(b) ==
  (IF blocks[b].hasDefault THEN {blocks[b].default} ELSE {})
    \cup {blocks[b].replaces[i] : i \in 1..Len(blocks[b].replaces)}
    \cup {blocks[b].appends[i] : i \in 1..Len(blocks[b].appends)}

(* the line of the file that follows the content run of occ, if any *)
StopLine(occ) == occ.line + Len(occ.content) + 1

HasStopLine(occ) == StopLine(occ) <= Len(OrigLines(occ.filePath))

(* a comment that is only // (and trailing spaces) *)
IsEmptyComment(line) == line.kind = "cmt" /\ line.text = ""

C15_EmptyCommentAccepted ==
  PassOneOver =>
    /\ \A b \in Ids :
         \A occ \in OccsOf(b) :
           /\ \A i \in 1..Len(occ.content) :
                /\ occ.content[i].originalLine = OrigLines(occ.filePath)[occ.line + i]
                /\ occ.content[i].isEmpty <=> IsEmptyComment(occ.content[i].originalLine)
           /\ HasStopLine(occ) =>
                ~IsEmptyComment(OrigLines(occ.filePath)[StopLine(occ)])
    /\ \A f \in 1..Len(files) :
         Processed(f) =>
           \A k \in 1..Len(FBlocks(f)) :
             LET R == ResolvedRuns(blocks[FBlocks(f)[k].blockId])
                 out == OutInterior(f, k)
                 m == Len(out) - Len(R)
             IN /\ m >= 0
                /\ \A i \in 1..Len(R) :
                     IsEmptyComment(R[i].item.originalLine) => out[m + i] = Blank

(* an empty comment with a shorter prefix than its directive, after a line *)
(* with text, generated into a span whose code line is indented            *)
C15_Witness ==
  \E f \in 1..Len(files) :
    /\ Processed(f)
    /\ PassOneOver
    /\ \E k \in 1..Len(FBlocks(f)) :
         LET info == blocks[FBlocks(f)[k].blockId]
         IN /\ FirstCodeIndent(OrigInterior(f, k)) >= 1
            /\ Len(info.replaces) >= 1
            /\ LET occ == info.replaces[Len(info.replaces)]
               IN \E i \in 2..Len(occ.content) :
                    /\ IsEmptyComment(occ.content[i].originalLine)
                    /\ occ.content[i].indent + 2 + occ.content[i].commentSpaces < occ.indent
                    /\ occ.content[i].commentSpaces < occ.content[1].commentSpaces
                    /\ ~occ.content[1].isEmpty

(***************************************************************************)
(* C16.  Empty markers: for a @block occurrence pass 2 does no             *)
(* preservation scan, the whole range between the marker line and its      *)
(* @endblock is replaced by the indented resolved content, and a @block    *)
(* occurrence never sets or clears the default of its identifier.          *)
(***************************************************************************)
(* the content items as generated lines at indentation ind *)
Indented(items, ind) ==
  [i \in 1..Len(items) |->
     IF items[i].isEmpty THEN Blank
     ELSE TextLine(ind + items[i].finalSp, items[i].finalText)]

(* the default of every identifier is the last registered block_default of *)
(* that identifier, and there is none when no block_default is registered  *)
DefaultFromBlockDefaultOnly ==
  PassOneOver =>
    \A b \in Ids :
      /\ blocks[b].hasDefault <=> Directives("block_default", b) # {}
      /\ blocks[b].hasDefault =>
           LET d == <<blocks[b].default.filePath, blocks[b].default.line>>
           IN /\ d \in Directives("block_default", b)
              /\ \A e \in Directives("block_default", b) :
                   e[1] < d[1] \/ (e[1] = d[1] /\ e[2] <= d[2])

(* as stated: the resolved content is the last replace or nothing, plus    *)
(* all appends                                                             *)
ReplaceOrEmptyContent(info) ==
  LET n == Len(info.replaces)
  IN (IF n >= 1 THEN info.replaces[n].content ELSE <<>>)
       \o ContentFrom(info.appends, 1)

C16_MarkerReplaceOrEmpty ==
  /\ DefaultFromBlockDefaultOnly
  /\ \A f \in 1..Len(files) :
       Processed(f) =>
         \A k \in 1..Len(FBlocks(f)) :
           FBlocks(f)[k].type = "block" =>
             OutInterior(f, k)
               = Indented(ReplaceOrEmptyContent(blocks[FBlocks(f)[k].blockId]),
                          FirstCodeIndent(OrigInterior(f, k)))

(* amended: the resolved content is the last replace, else the registered  *)
(* default of the identifier, else nothing, plus all appends               *)
C16_MarkerResolved ==
  /\ DefaultFromBlockDefaultOnly
  /\ \A f \in 1..Len(files) :
       Processed(f) =>
         \A k \in 1..Len(FBlocks(f)) :
           FBlocks(f)[k].type = "block" =>
             OutInterior(f, k)
               = Indented(PrecedenceContent(blocks[FBlocks(f)[k].blockId]),
                          FirstCodeIndent(OrigInterior(f, k)))

(* a processed @block span that starts with a comment a block_default      *)
(* would keep, filled from the default of another span and an append       *)
C16_Witness ==
  \E f \in 1..Len(files) :
    /\ Processed(f)
    /\ PassOneOver
    /\ \E k \in 1..Len(FBlocks(f)) :
         LET block == FBlocks(f)[k]
             info == blocks[block.blockId]
             span == OrigInterior(f, k)
         IN /\ block.type = "block"
            /\ Len(span) >= 2
            /\ span[1].kind = "cmt" /\ span[1].text # ""
            /\ span[1].ind + 2 + span[1].cs >= block.indent
            /\ info.hasDefault /\ info.default.content # <<>>
            /\ info.replaces = <<>>
            /\ Len(info.appends) >= 1
            /\ OutInterior(f, k) # <<>>

(***************************************************************************)
(* C17.  No space after //: a directive written with no space between the  *)
(* // and the @ is not recognized as a directive and registers no block:   *)
(* no span of the file starts at it and no registry occurrence comes from  *)
(* it.                                                                     *)
(***************************************************************************)
C17_NoSpaceInvalid ==
  PassOneOver =>
    \A f \in 1..Len(files) :
      \A i \in 1..Len(OrigLines(f)) :
        (OrigLines(f)[i].kind = "dir" /\ OrigLines(f)[i].cs = 0) =>
          /\ \A k \in 1..Len(FBlocks(f)) : FBlocks(f)[k].startLine # i
          /\ \A b \in Ids :
               \A occ \in OccsOf(b) : ~(occ.filePath = f /\ occ.line = i)

(***************************************************************************)
(* C18.  Unknown commands: a // @word line whose command is none of the    *)
(* five known ones never raises an error, whatever its arguments, and      *)
(* never creates a registry entry, an occurrence or a span.                *)
(***************************************************************************)
IsUnknownCommand(line) ==
  line.kind = "dir" /\ line.cmd \notin BlockCommands \cup {"endblock"}

IsBlockDirective(line, b) ==
  line.kind = "dir" /\ line.cmd \in BlockCommands /\ line.nargs = 1 /\ line.id = b

C18_UnknownIgnored ==
  /\ pc = "exited" => HasMalformed(disk[fileIdx].lines)
  /\ \A b \in Ids :
       /\ blocks[b].present =>
            \E f \in 1..Len(before) :
              \E i \in 1..Len(before[f].lines) : IsBlockDirective(before[f].lines[i], b)
       /\ \A occ \in OccsOf(b) :
            IsBlockDirective(before[occ.filePath].lines[occ.line], b)
  /\ \A f \in 1..Len(files) :
       \A k \in 1..Len(FBlocks(f)) :
         IsBlockDirective(OrigLines(f)[FBlocks(f)[k].startLine], FBlocks(f)[k].blockId)

(* pass 1 went over a file with unknown commands of zero, one and two      *)
(* arguments, one of them naming an identifier no block directive names,   *)
(* and registered a block of that file                                     *)
C18_Witness ==
  /\ PassOneOver
  /\ \E f \in 1..Len(files) :
       /\ \A n \in 0..2 :
            \E i \in 1..Len(OrigLines(f)) :
              IsUnknownCommand(OrigLines(f)[i]) /\ OrigLines(f)[i].nargs = n
       /\ \E i \in 1..Len(OrigLines(f)) :
            IsUnknownCommand(OrigLines(f)[i]) /\ OrigLines(f)[i].id = "Y"
       /\ Len(FBlocks(f)) >= 1
  /\ ~blocks["Y"].present
  /\ blocks["X"].present

(***************************************************************************)
(* C19.  Unterminated spans: a block_default or block directive with no    *)
(* @endblock after it is not an error; its span goes to the end of the     *)
(* file, no directive after it in that file is registered, and pass 2      *)
(* replaces everything after the preserved comment prefix, through the     *)
(* last line of the file, with the resolved content.                       *)
(***************************************************************************)
IsEndBlock(line) == line.kind = "dir" /\ line.cmd = "endblock"

(* no @endblock after line i of file lines *)
Unterminated(lines, i) ==
  \A j \in (i + 1)..Len(lines) : ~IsEndBlock(lines[j])

(* number of leading lines of span that pass 2 keeps for a block_default   *)
PreservedPrefix(span, indent) ==
  CHOOSE p \in 0..Len(span) :
    /\ \A i \in 1..p : IsTemplateComment(span[i], indent)
    /\ p < Len(span) => ~IsTemplateComment(span[p + 1], indent)

C19_UnterminatedSpan ==
  /\ pc = "exited" => HasMalformed(disk[fileIdx].lines)
  /\ \A f \in 1..Len(files) :
       \A k \in 1..Len(FBlocks(f)) :
         LET block == FBlocks(f)[k]
             span == OrigInterior(f, k)
             kept == IF block.type = "block_default"
                       THEN PreservedPrefix(span, block.indent) ELSE 0
         IN Unterminated(OrigLines(f), block.startLine) =>
              /\ block.endLine = Len(OrigLines(f)) + 1
              /\ k = Len(FBlocks(f))
              /\ \A b \in Ids :
                   \A occ \in OccsOf(b) :
                     occ.filePath = f => occ.line <= block.startLine
              /\ Processed(f) =>
                   SubSeq(OutLines(f), OutStart(f, k) + 1, Len(OutLines(f)))
                     = SubSeq(span, 1, kept)
                         \o Indented(PrecedenceContent(blocks[block.blockId]),
                                     FirstCodeIndent(span))

(* a processed file whose unterminated block_default has a template        *)
(* comment, an old generated line and a block directive after them         *)
C19_Witness ==
  \E f \in 1..Len(files) :
    /\ Processed(f)
    /\ \E k \in 1..Len(FBlocks(f)) :
         LET block == FBlocks(f)[k]
             span == OrigInterior(f, k)
         IN /\ Unterminated(OrigLines(f), block.startLine)
            /\ block.type = "block_default"
            /\ PreservedPrefix(span, block.indent) >= 1
            /\ \E i \in 1..Len(span) : span[i].kind = "code"
            /\ \E i \in 1..Len(span) : \E b \in Ids : IsBlockDirective(span[i], b)
            /\ PrecedenceContent(blocks[block.blockId]) # <<>>
            /\ Len(OutLines(f)) < Len(OrigLines(f))

(***************************************************************************)
(* C20.  Acceptance into a content run: a comment that is not a directive  *)
(* is accepted into the run if and only if its comment indent width is at  *)
(* least that of the opening directive line, or it is only //; any other   *)
(* comment stops the run and is not part of it.  As stated the width is    *)
(* the number of spaces between the // and the text.                       *)
(***************************************************************************)
SpacesWidth(line) == line.cs

(* width of the whole comment prefix: leading whitespace, //, spaces *)
PrefixWidth(line) == line.ind + 2 + line.cs

(* every run of the registry is the lines after its directive that are     *)
(* accepted under width W, up to the first comment that is not             *)
RunsAcceptBy(W(_)) ==
  PassOneOver =>
    \A b \in Ids :
      \A occ \in OccsOf(b) :
        LET lines == OrigLines(occ.filePath)
            directive == lines[occ.line]
            accepted(line) == W(line) >= W(directive) \/ IsEmptyComment(line)
        IN /\ \A i \in 1..Len(occ.content) :
                /\ occ.content[i].originalLine = lines[occ.line + i]
                /\ lines[occ.line + i].kind = "cmt"
                /\ accepted(lines[occ.line + i])
           /\ (HasStopLine(occ) /\ lines[StopLine(occ)].kind = "cmt")
                => ~accepted(lines[StopLine(occ)])

C20_AcceptedBySpaces == RunsAcceptBy(SpacesWidth)

(* amended: the width is the length of the whole comment prefix *)
C20_AcceptedByPrefix == RunsAcceptBy(PrefixWidth)

(* a run that accepted a line with fewer spaces after the // than its      *)
(* directive, because of its leading whitespace, and stopped on a comment  *)
C20_Witness ==
  /\ PassOneOver
  /\ \E b \in Ids :
       \E occ \in OccsOf(b) :
         LET lines == OrigLines(occ.filePath)
             directive == lines[occ.line]
         IN /\ \E i \in 1..Len(occ.content) :
                 /\ ~occ.content[i].isEmpty
                 /\ occ.content[i].commentSpaces < directive.cs
                 /\ occ.content[i].indent > directive.ind
            /\ HasStopLine(occ)
            /\ lines[StopLine(occ)].kind = "cmt"

(***************************************************************************)
(* C21.  End of a replace/append body: the run of a block_replace or       *)
(* block_append ends, without consuming it, at the first line that is a    *)
(* directive of any kind, a blank line or text that is not a comment; the  *)
(* scan of the file resumes at that line, so a block directive right after *)
(* a body is registered, and comments after a blank line are not part of   *)
(* the body.                                                               *)
(***************************************************************************)
BodyOccsOf(b) ==
  {blocks[b].replaces[i] : i \in 1..Len(blocks[b].replaces)}
    \cup {blocks[b].appends[i] : i \in 1..Len(blocks[b].appends)}

(* a directive of any kind, a blank line, or text that is not a comment *)
EndsBody(line) == line.kind \in {"dir", "blank", "code"}

(* the scan index goes from line i to line j in one step *)
ScanStep(f, i, j) ==
  \E t \in 1..(Len(files[f].trace) - 1) :
    files[f].trace[t] = i /\ files[f].trace[t + 1] = j

(* the block directive on line i of file f is registered *)
Registered(f, i) ==
  \/ \E k \in 1..Len(FBlocks(f)) : FBlocks(f)[k].startLine = i
  \/ \E b \in Ids : \E occ \in BodyOccsOf(b) : occ.filePath = f /\ occ.line = i

C21_BodyEnds ==
  PassOneOver =>
    \A b \in Ids :
      \A occ \in BodyOccsOf(b) :
        LET f == occ.filePath
            lines == OrigLines(f)
            stop == StopLine(occ)
        IN /\ \A i \in 1..Len(occ.content) :
                /\ occ.content[i].originalLine = lines[occ.line + i]
                /\ ~EndsBody(lines[occ.line + i])
           /\ HasStopLine(occ) =>
                \/ EndsBody(lines[stop])
                \/ /\ PrefixWidth(lines[stop]) < PrefixWidth(lines[occ.line])
                   /\ ~IsEmptyComment(lines[stop])
           /\ ScanStep(f, occ.line, stop)
           /\ (HasStopLine(occ) /\ \E c \in Ids : IsBlockDirective(lines[stop], c))
                => Registered(f, stop)

(* a body that a block directive follows at once, and a body that ends at  *)
(* a blank line with a comment after it                                    *)
C21_Witness ==
  /\ PassOneOver
  /\ \E b \in Ids :
       \E occ \in BodyOccsOf(b) :
         /\ occ.content # <<>>
         /\ HasStopLine(occ)
         /\ \E c \in Ids : IsBlockDirective(OrigLines(occ.filePath)[StopLine(occ)], c)
  /\ \E b \in Ids :
       \E occ \in BodyOccsOf(b) :
         LET lines == OrigLines(occ.filePath)
         IN /\ occ.content # <<>>
            /\ StopLine(occ) + 1 <= Len(lines)
            /\ lines[StopLine(occ)].kind = "blank"
            /\ lines[StopLine(occ) + 1].kind = "cmt"

(***************************************************************************)
(* C22.  Terminator of a span: the terminator of a block_default or block  *)
(* is the first @endblock line after it, whatever block it was written     *)
(* for; the scan resumes right after that line, so no directive strictly   *)
(* between the opening line and the terminator is ever registered.         *)
(***************************************************************************)
C22_FirstEndBlock ==
  \A f \in 1..Len(files) :
    \A k \in 1..Len(FBlocks(f)) :
      LET block == FBlocks(f)[k]
          lines == OrigLines(f)
      IN /\ block.endLine <= Len(lines) => IsEndBlock(lines[block.endLine])
         /\ \A j \in (block.startLine + 1)..(block.endLine - 1) :
              /\ ~IsEndBlock(lines[j])
              /\ ~Registered(f, j)
              /\ \A b \in Ids :
                   blocks[b].hasDefault =>
                     ~(blocks[b].default.filePath = f /\ blocks[b].default.line = j)
         /\ ScanStep(f, block.startLine, block.endLine + 1)

(* a span that holds a block_replace and a block_default of an identifier  *)
(* no other line names, closed by an @endblock                             *)
C22_Witness ==
  /\ PassOneOver
  /\ ~blocks["Y"].present
  /\ \E f \in 1..Len(files) :
       \E k \in 1..Len(FBlocks(f)) :
         LET block == FBlocks(f)[k]
             span == OrigInterior(f, k)
         IN /\ block.endLine <= Len(OrigLines(f))
            /\ \E i \in 1..Len(span) :
                 span[i].kind = "dir" /\ span[i].cmd = "block_replace"
                   /\ span[i].nargs = 1
            /\ \E i \in 1..Len(span) :
                 IsBlockDirective(span[i], "Y") /\ span[i].cmd = "block_default"
            /\ blocks[block.blockId].replaces = <<>>

(***************************************************************************)
(* C23.  Several spans in one file: the interior of each span is replaced  *)
(* by the resolved content of its own identifier, and every line before,   *)
(* between and after the spans is unchanged and in the same order, however *)
(* much the other spans grow or shrink.                                    *)
(***************************************************************************)
(* what pass 2 leaves between the opening line and the terminator of span  *)
(* k: the kept template comments of a block_default, then the resolved     *)
(* content of the identifier of the span at the indentation of the span    *)
NewInterior(f, k) ==
  LET block == FBlocks(f)[k]
      span == OrigInterior(f, k)
      kept == IF block.type = "block_default"
                THEN PreservedPrefix(span, block.indent) ELSE 0
  IN SubSeq(span, 1, kept)
       \o Indented(PrecedenceContent(blocks[block.blockId]), FirstCodeIndent(span))

(* the file from line from on, with spans k and later rewritten *)
RECURSIVE Rewritten(_, _, _)
Rewritten(f, k, from) ==
  IF k > Len(FBlocks(f)) THEN SubSeq(OrigLines(f), from, Len(OrigLines(f)))
  ELSE SubSeq(OrigLines(f), from, FBlocks(f)[k].startLine)
         \o NewInterior(f, k)
         \o Rewritten(f, k + 1, FBlocks(f)[k].endLine)

C23_SpansIndependent ==
  \A f \in 1..Len(files) :
    Processed(f) => OutLines(f) = Rewritten(f, 1, 1)

(* a processed file with two spans of two identifiers, the first growing   *)
(* and the second shrinking, with lines before, between and after them     *)
C23_Witness ==
  \E f \in 1..Len(files) :
    /\ Processed(f)
    /\ Len(FBlocks(f)) >= 2
    /\ FBlocks(f)[1].blockId # FBlocks(f)[2].blockId
    /\ Len(NewInterior(f, 1)) > Len(OrigInterior(f, 1))
    /\ Len(NewInterior(f, 2)) < Len(OrigInterior(f, 2))
    /\ NewInterior(f, 2) # <<>>
    /\ FBlocks(f)[1].startLine > 1
    /\ FBlocks(f)[1].endLine + 1 < FBlocks(f)[2].startLine
    /\ FBlocks(f)[2].endLine < Len(OrigLines(f))
    /\ PrecedenceContent(blocks[FBlocks(f)[1].blockId])
         # PrecedenceContent(blocks[FBlocks(f)[2].blockId])

(***************************************************************************)
(* C24.  Several defaults: when several block_default of one identifier    *)
(* are scanned the registry keeps the content of the last one in discovery *)
(* order only, and when the identifier has no replace every block_default  *)
(* and block span of it, in every file, is filled from that last default.  *)
(***************************************************************************)
(* the block_default spans of identifier b as <<file, index in the file>> *)
DefaultSpans(b) ==
  { fk \in UNION { {<<f, k>> : k \in 1..Len(FBlocks(f))} : f \in 1..Len(files) } :
      /\ FBlocks(fk[1])[fk[2]].type = "block_default"
      /\ FBlocks(fk[1])[fk[2]].blockId = b }

LastDefaultSpan(b) ==
  CHOOSE fk \in DefaultSpans(b) :
    \A gl \in DefaultSpans(b) :
      gl[1] < fk[1] \/ (gl[1] = fk[1] /\ gl[2] <= fk[2])

C24_LastDefaultWins ==
  PassOneOver =>
    \A b \in Ids :
      /\ blocks[b].hasDefault <=> DefaultSpans(b) # {}
      /\ DefaultSpans(b) # {} =>
           LET last == FBlocks(LastDefaultSpan(b)[1])[LastDefaultSpan(b)[2]]
           IN /\ blocks[b].default.content = last.content
              /\ blocks[b].default.filePath = LastDefaultSpan(b)[1]
              /\ blocks[b].default.line = last.startLine
              /\ blocks[b].replaces = <<>> =>
                   \A f \in 1..Len(files) :
                     Processed(f) =>
                       \A k \in 1..Len(FBlocks(f)) :
                         FBlocks(f)[k].blockId = b =>
                           LET span == OrigInterior(f, k)
                               kept == IF FBlocks(f)[k].type = "block_default"
                                         THEN PreservedPrefix(span, FBlocks(f)[k].indent)
                                         ELSE 0
                           IN OutInterior(f, k)
                                = SubSeq(span, 1, kept)
                                    \o Indented(last.content
                                                  \o ContentFrom(blocks[b].appends, 1),
                                                FirstCodeIndent(span))

(* two block_default of one identifier with different bodies and a @block  *)
(* of it, all processed, the earlier default filled from the later one     *)
C24_Witness ==
  /\ PassOneOver
  /\ \E b \in Ids :
       /\ blocks[b].replaces = <<>>
       /\ blocks[b].hasDefault
       /\ blocks[b].default.content # <<>>
       /\ \E fk \in DefaultSpans(b) :
            /\ Processed(fk[1])
            /\ FBlocks(fk[1])[fk[2]].content # blocks[b].default.content
            /\ FBlocks(fk[1])[fk[2]].content # <<>>
            /\ fk[1] < blocks[b].default.filePath
       /\ \E f \in 1..Len(files) :
            /\ Processed(f)
            /\ \E k \in 1..Len(FBlocks(f)) :
                 FBlocks(f)[k].type = "block" /\ FBlocks(f)[k].blockId = b

(***************************************************************************)
(* C25.  One content per identifier: all block_default and block spans of  *)
(* an identifier, in all files, receive the same sequence of resolved      *)
(* content lines, which differ only by the indentation of each target; and *)
(* pass 2 never modifies the Block Registry.                               *)
(***************************************************************************)
(* the lines pass 2 generated into span k of file f: what follows the kept *)
(* template comments                                                       *)
GeneratedLines(f, k) ==
  LET span == OrigInterior(f, k)
      kept == IF FBlocks(f)[k].type = "block_default"
                THEN PreservedPrefix(span, FBlocks(f)[k].indent) ELSE 0
  IN SubSeq(OutInterior(f, k), kept + 1, Len(OutInterior(f, k)))

(* the lines without the indentation ind of their target *)
Dedented(ls, ind) ==
  [i \in 1..Len(ls) |->
     IF ls[i].kind = "blank" THEN ls[i] ELSE [ls[i] EXCEPT !.ind = @ - ind]]

SameContentEverywhere ==
  \A f, g \in 1..Len(files) :
    (Processed(f) /\ Processed(g)) =>
      \A k \in 1..Len(FBlocks(f)) :
        \A l \in 1..Len(FBlocks(g)) :
          FBlocks(f)[k].blockId = FBlocks(g)[l].blockId =>
            /\ Dedented(GeneratedLines(f, k), FirstCodeIndent(OrigInterior(f, k)))
                 = Dedented(GeneratedLines(g, l), FirstCodeIndent(OrigInterior(g, l)))

RegistryReadOnly == pc = "pass2" => blocks' = blocks

C25_OneContentPerId == [](SameContentEverywhere) /\ [][RegistryReadOnly]_vars

(* two processed files with a span of the same identifier at different     *)
(* indentations, filled with at least three lines, one of them empty and   *)
(* one nested                                                              *)
C25_Witness ==
  \E f, g \in 1..Len(files) :
    /\ f # g
    /\ Processed(f) /\ Processed(g)
    /\ \E k \in 1..Len(FBlocks(f)) :
         \E l \in 1..Len(FBlocks(g)) :
           /\ FBlocks(f)[k].blockId = FBlocks(g)[l].blockId
           /\ FBlocks(f)[k].type = "block_default"
           /\ FBlocks(g)[l].type = "block"
           /\ FirstCodeIndent(OrigInterior(f, k)) # FirstCodeIndent(OrigInterior(g, l))
           /\ Len(GeneratedLines(g, l)) >= 3
           /\ GeneratedLines(f, k) # GeneratedLines(g, l)
           /\ \E i \in 1..Len(GeneratedLines(g, l)) :
                GeneratedLines(g, l)[i].kind = "blank"
           /\ \E i, j \in 1..Len(GeneratedLines(g, l)) :
                /\ GeneratedLines(g, l)[i].kind = "code"
                /\ GeneratedLines(g, l)[j].kind = "code"
                /\ GeneratedLines(g, l)[i].ind # GeneratedLines(g, l)[j].ind

(***************************************************************************)
(* C26.  Fresh state per invocation: each process() call starts from an    *)
(* empty Block Registry and an empty file table, so nothing an earlier     *)
(* call registered contributes to a later one; appends are not counted     *)
(* twice when process() is called twice.                                   *)
(***************************************************************************)
C26_FreshPerInvocation ==
  /\ Len(files) <= Len(before)
  /\ \A f \in 1..Len(files) : files[f].lines = before[f].lines
  /\ pc = "pass1" => Len(files) = fileIdx - 1
  /\ PassOneOver =>
       \A b \in Ids :
         /\ Positions(blocks[b].replaces) = Directives("block_replace", b)
         /\ Len(blocks[b].replaces) = Cardinality(Directives("block_replace", b))
         /\ Positions(blocks[b].appends) = Directives("block_append", b)
         /\ Len(blocks[b].appends) = Cardinality(Directives("block_append", b))
         /\ blocks[b].hasDefault <=> Directives("block_default", b) # {}
         /\ blocks[b].present <=>
              \E cmd \in BlockCommands : Directives(cmd, b) # {}

(* the second call has finished pass 1 over files with a default, a        *)
(* replace and two appends of one identifier                               *)
C26_Witness ==
  /\ runs = 1
  /\ pc = "pass2"
  /\ \E b \in Ids :
       /\ blocks[b].hasDefault
       /\ Len(blocks[b].replaces) >= 1
       /\ Len(blocks[b].appends) >= 2
  /\ \E b \in Ids : ~blocks[b].present

(***************************************************************************)
(* C27.  @endblock with extra tokens: a // @endblock line followed by more *)
(* tokens is still the closing directive; it raises no error and ends a    *)
(* block_default or block span and a content run as a bare // @endblock    *)
(* does.                                                                   *)
(***************************************************************************)
IsEndBlockWithTokens(line) ==
  line.kind = "dir" /\ line.cmd = "endblock" /\ line.nargs >= 1

C27_EndBlockWithTokens ==
  /\ pc = "exited" =>
       \E i \in 1..Len(disk[fileIdx].lines) :
         /\ IsMalformed(disk[fileIdx].lines[i])
         /\ ~IsEndBlockWithTokens(disk[fileIdx].lines[i])
  /\ \A f \in 1..Len(files) :
       /\ \A i \in 1..Len(OrigLines(f)) :
            IsEndBlockWithTokens(OrigLines(f)[i]) => ~Inside(f, i)
       /\ \A k \in 1..Len(FBlocks(f)) :
            \A i \in 1..Len(FBlocks(f)[k].content) :
              ~IsEndBlockWithTokens(FBlocks(f)[k].content[i].originalLine)
  /\ PassOneOver =>
       \A b \in Ids :
         \A occ \in OccsOf(b) :
           /\ \A i \in 1..Len(occ.content) :
                ~IsEndBlockWithTokens(OrigLines(occ.filePath)[occ.line + i])
           /\ \A i \in 1..Len(OrigLines(occ.filePath)) :
                (IsEndBlockWithTokens(OrigLines(occ.filePath)[i]) /\ i > occ.line)
                  => StopLine(occ) <= i

(* a processed span closed by an @endblock with tokens that also stops the *)
(* run of its template comments, with a bare @endblock further down        *)
C27_Witness ==
  \E f \in 1..Len(files) :
    /\ Processed(f)
    /\ \E k \in 1..Len(FBlocks(f)) :
         LET block == FBlocks(f)[k]
             lines == OrigLines(f)
         IN /\ block.endLine <= Len(lines)
            /\ IsEndBlockWithTokens(lines[block.endLine])
            /\ block.content # <<>>
            /\ block.startLine + Len(block.content) + 1 = block.endLine
            /\ \E j \in (block.endLine + 1)..Len(lines) :
                 IsEndBlock(lines[j]) /\ lines[j].nargs = 0

(***************************************************************************)
(* C28.  Spans of a file: after pass 1 the block_default and block         *)
(* occurrences recorded for a file are in strictly increasing startLine    *)
(* order, each has startLine < endLine <= number of lines of the file, and *)
(* the ranges startLine..endLine of distinct occurrences are disjoint.     *)
(* The source counts lines from 0, the model from 1.                       *)
(***************************************************************************)
ZeroBased(n) == n - 1

C28_SpansOrdered ==
  \A f \in 1..Len(files) :
    /\ \A k \in 1..Len(FBlocks(f)) :
         /\ ZeroBased(FBlocks(f)[k].startLine) >= 0
         /\ ZeroBased(FBlocks(f)[k].startLine) < ZeroBased(FBlocks(f)[k].endLine)
         /\ ZeroBased(FBlocks(f)[k].endLine) <= Len(OrigLines(f))
         /\ FBlocks(f)[k].type \in {"block_default", "block"}
    /\ \A k, l \in 1..Len(FBlocks(f)) :
         k < l =>
           /\ FBlocks(f)[k].startLine < FBlocks(f)[l].startLine
           /\ FBlocks(f)[k].endLine < FBlocks(f)[l].startLine

(* a file with two spans that are next to each other, the second without   *)
(* @endblock, so that its endLine is the number of lines                   *)
C28_Witness ==
  \E f \in 1..Len(files) :
    /\ Len(FBlocks(f)) >= 2
    /\ FBlocks(f)[1].endLine + 1 = FBlocks(f)[2].startLine
    /\ ZeroBased(FBlocks(f)[2].endLine) = Len(OrigLines(f))
    /\ FBlocks(f)[1].endLine > FBlocks(f)[1].startLine + 1

(***************************************************************************)
(* C29.  Termination of pass 1: the scan of a file with no malformed       *)
(* directive ends; the scan index strictly increases at every step, by one *)
(* for a line that is no block directive, to endLine + 1 after a           *)
(* block_default or block, to the stop index, at least the directive line  *)
(* + 1, after a block_replace or block_append; the Content Extractor never *)
(* returns an index beyond the number of lines.                            *)
(***************************************************************************)
(* the step the scan takes from line i of file f to index j *)
StepFrom(f, i, j) ==
  LET lines == OrigLines(f)
  IN IF \E b \in Ids : IsBlockDirective(lines[i], b)
       THEN IF lines[i].cmd \in {"block_default", "block"}
              THEN \E k \in 1..Len(FBlocks(f)) :
                     /\ FBlocks(f)[k].startLine = i
                     /\ j = FBlocks(f)[k].endLine + 1
              ELSE /\ j >= i + 1
                   /\ ZeroBased(j) <= Len(lines)
                   /\ \A n \in (i + 1)..(j - 1) : lines[n].kind = "cmt"
                   /\ PassOneOver =>
                        \E occ \in BodyOccsOf(lines[i].id) :
                          occ.filePath = f /\ occ.line = i /\ StopLine(occ) = j
     ELSE j = i + 1

ScanAdvances ==
  \A f \in 1..Len(files) :
    LET trace == files[f].trace
        n == Len(OrigLines(f))
    IN /\ ~HasMalformed(OrigLines(f))
       /\ Len(trace) >= 1
       /\ trace[1] = 1
       /\ trace[Len(trace)] > n
       /\ ZeroBased(trace[Len(trace)]) <= n + 1
       /\ \A t \in 1..(Len(trace) - 1) :
            /\ trace[t] < trace[t + 1]
            /\ trace[t] <= n
            /\ StepFrom(f, trace[t], trace[t + 1])
       /\ \A k \in 1..Len(FBlocks(f)) :
            ZeroBased(FBlocks(f)[k].startLine + Len(FBlocks(f)[k].content) + 1) <= n

(* C29: the scan index of every scanned file advances as stated, and a     *)
(* started pass 1 is always left                                           *)
C29_PassOneTerminates ==
  [](ScanAdvances) /\ ((pc = "pass1") ~> (pc # "pass1"))

(* a scanned file in which the scan took a step of one line, a step over a *)
(* span and a step over a body of two lines or more                        *)
C29_Witness ==
  /\ PassOneOver
  /\ \E f \in 1..Len(files) :
       LET trace == files[f].trace
           lines == OrigLines(f)
       IN /\ \E t \in 1..(Len(trace) - 1) :
               lines[trace[t]].kind = "code" /\ trace[t + 1] = trace[t] + 1
          /\ \E t \in 1..(Len(trace) - 1) :
               /\ lines[trace[t]].cmd = "block_default"
               /\ trace[t + 1] >= trace[t] + 3
               /\ trace[t + 1] <= Len(lines)
          /\ \E t \in 1..(Len(trace) - 1) :
               /\ lines[trace[t]].cmd \in {"block_replace", "block_append"}
               /\ trace[t + 1] >= trace[t] + 3
====
